---- MODULE Spec2Model ----
(***************************************************************************)
(* Pelham Swimming (src/app.py): a Streamlit application over two cloud    *)
(* collections, swimmers and results.  The model follows the pages that    *)
(* read and write the results collection:                                  *)
(*   Enter Times (Batch)  - a grid of swimmers, one time cell and one DNS  *)
(*                          tick per row, and the Submit Results loop;     *)
(*   Edit/Fix Results     - a swimmer's history in an editable grid and    *)
(*                          the Save Changes loop;                         *)
(*   Rankings             - join, group, reduce, sort, top 3 per house;    *)
(*   Gala Reports         - the event heat sheets of the PDF report.       *)
(* Times are exact decimals counted in thousandths of a second; a rank     *)
(* time is counted in hundredths (round(x, 2)).  Binary floating point     *)
(* representation error is outside the model.  Text is a sequence of       *)
(* one-character strings, so formatting and parsing are computed.          *)
(***************************************************************************)
EXTENDS Integers, Sequences, FiniteSets, TLC

VARIABLES swimmers, results, today, page

vars == <<swimmers, results, today, page>>

(***************************************************************************)
(* Bounds of the model.                                                    *)
(***************************************************************************)
\* documents the results collection may hold before Submit Results is cut off
MaxResults == 2
\* documents of the results collection a ranking scenario starts with
MaxSeed == 4

(***************************************************************************)
(* Program constants.                                                      *)
(***************************************************************************)
TeamSize == 3
DefaultN == 3
MinN == 2
MaxN == 5

Houses == <<"Bromhead", "Christie", "Clark", "Melville">>

\* the stroke selectbox; the model's operators choose among two of the four
StrokeChoices == {"Freestyle", "Butterfly"}

\* the grade selectbox; the model's operators choose among two of the four
GradeChoices == {4, 5}

Methods == {"Best Time", "Average of Last N", "Last Swim"}

None == [kind |-> "none"]

(***************************************************************************)
(* Text.                                                                   *)
(***************************************************************************)
DigitChar == <<"0", "1", "2", "3", "4", "5", "6", "7", "8", "9">>

IsDigit(c) == \E i \in 1..10 : DigitChar[i] = c

DigitVal(c) == (CHOOSE i \in 1..10 : DigitChar[i] = c) - 1

\* code points of the characters the model's texts are made of, in order
CharOrder == <<"-", ".", "0", "1", "2", "3", "4", "5", "6", "7", "8", "9",
               "N", "a", "b", "c", "e", "n", "o">>

CharCode(c) == CHOOSE i \in 1..Len(CharOrder) : CharOrder[i] = c

\* Python's < on str: lexicographic by code point, a proper prefix first
RECURSIVE StrLess(_, _)
StrLess(s, t) ==
    IF t = <<>> THEN FALSE
    ELSE IF s = <<>> THEN TRUE
    ELSE IF Head(s) = Head(t) THEN StrLess(Tail(s), Tail(t))
    ELSE CharCode(Head(s)) < CharCode(Head(t))

Pow10(k) == IF k = 0 THEN 1 ELSE IF k = 1 THEN 10 ELSE IF k = 2 THEN 100 ELSE 1000

\* n written in decimal, zero-padded to w digits (w <= 4)
Pad(n, w) == [i \in 1..w |-> DigitChar[((n \div Pow10(w - i)) % 10) + 1]]

RECURSIVE DigitsVal(_)
DigitsVal(s) == IF s = <<>> THEN 0 ELSE 10 * DigitsVal(SubSeq(s, 1, Len(s) - 1)) + DigitVal(s[Len(s)])

AllDigits(s) == \A i \in 1..Len(s) : IsDigit(s[i])

(***************************************************************************)
(* Calendar dates and their storage text.                                  *)
(***************************************************************************)
DaysIn(y, m) ==
    IF m \in {4, 6, 9, 11} THEN 30
    ELSE IF m = 2 THEN (IF (y % 4 = 0 /\ y % 100 # 0) \/ y % 400 = 0 THEN 29 ELSE 28)
    ELSE 31

\* datetime.now().strftime("%Y-%m-%d")
Strftime(dt) == Pad(dt.y, 4) \o <<"-">> \o Pad(dt.m, 2) \o <<"-">> \o Pad(dt.d, 2)

\* str() of a date cell: date.isoformat() for a date, "None" for an empty cell
PyStr(cell) ==
    IF cell = None THEN <<"N", "o", "n", "e">>
    ELSE Pad(cell.y, 4) \o <<"-">> \o Pad(cell.m, 2) \o <<"-">> \o Pad(cell.d, 2)

\* pd.to_datetime(text).dt.date on the texts the program stores:
\* [ok |-> TRUE, date |-> d] or [ok |-> FALSE] (the page raises)
ToDate(s) ==
    IF /\ Len(s) = 10
       /\ s[5] = "-" /\ s[8] = "-"
       /\ AllDigits(SubSeq(s, 1, 4)) /\ AllDigits(SubSeq(s, 6, 7)) /\ AllDigits(SubSeq(s, 9, 10))
    THEN LET y == DigitsVal(SubSeq(s, 1, 4))
             m == DigitsVal(SubSeq(s, 6, 7))
             d == DigitsVal(SubSeq(s, 9, 10))
         IN IF m \in 1..12 /\ d \in 1..DaysIn(y, m)
            THEN [ok |-> TRUE, date |-> [y |-> y, m |-> m, d |-> d]]
            ELSE [ok |-> FALSE]
    ELSE [ok |-> FALSE]

(***************************************************************************)
(* Cell values and float().                                                *)
(***************************************************************************)
Num(v) == [kind |-> "float", v |-> v]
Text(s) == [kind |-> "str", s |-> s]
List(items) == [kind |-> "list", items |-> items]

\* float() of a text: digits, optionally a point and one to three digits
StrToFloat(s) ==
    LET dots == {i \in 1..Len(s) : s[i] = "."}
    IN IF dots = {} THEN
           IF s # <<>> /\ AllDigits(s) THEN [ok |-> TRUE, v |-> 1000 * DigitsVal(s)]
           ELSE [ok |-> FALSE]
       ELSE LET p == CHOOSE i \in dots : TRUE
                whole == SubSeq(s, 1, p - 1)
                frac == SubSeq(s, p + 1, Len(s))
            IN IF /\ Cardinality(dots) = 1
                  /\ whole # <<>> /\ AllDigits(whole)
                  /\ Len(frac) \in 1..3 /\ AllDigits(frac)
               THEN [ok |-> TRUE,
                     v |-> 1000 * DigitsVal(whole) + DigitsVal(frac) * Pow10(3 - Len(frac))]
               ELSE [ok |-> FALSE]

\* float(x): [ok |-> TRUE, v |-> thousandths] or [ok |-> FALSE] (TypeError, ValueError)
PyFloat(x) ==
    CASE x.kind = "float" -> [ok |-> TRUE, v |-> x.v]
      [] x.kind = "str" -> StrToFloat(x.s)
      [] OTHER -> [ok |-> FALSE]

(***************************************************************************)
(* The collections.  A swimmer's id is its place in swimmers, a result's   *)
(* doc id its place in results (no page of the program deletes either).    *)
(***************************************************************************)
Swimmer(f, s, g, gr, h) ==
    [first_name |-> f, surname |-> s, gender |-> g, grade |-> gr, house |-> h]

\* the days a session of the program runs on, in order
Calendar == <<[y |-> 2024, m |-> 2, d |-> 9], [y |-> 2024, m |-> 11, d |-> 30]>>

\* the swimmers collection of a one-swimmer school
SoloRoster == <<Swimmer("Alice", "Adams", "F", 4, "Bromhead")>>

\* the swimmers collection of a small class: a girl and a boy in grade 4
ClassRoster ==
    <<Swimmer("Alice", "Adams", "F", 4, "Bromhead"),
      Swimmer("Ben", "Botha", "M", 4, "Christie")>>

\* Firestore add(): the document Submit Results writes
NewResult(id, stroke, time_val) ==
    [swimmer_id |-> id, stroke |-> stroke, time_seconds |-> time_val,
     date_swum |-> Strftime(today), season |-> today.y,
     source |-> "Trials", logged_by |-> "Staff Member"]

Home == [name |-> "Home"]

(***************************************************************************)
(* Enter Times (Batch).                                                    *)
(***************************************************************************)
\* what an operator leaves in a time cell of the grid
TimeEntries ==
    {None, Num(0), Num(29995), List(<<Num(30250)>>), List(<<>>),
     Text(<<"a", "b", "c">>)}

GenderFilters == {"All", "M", "F"}

\* the swimmers query: ids of the swimmers of the grade (and gender), in stream order
BatchQuery(grade_filter, gender_filter) ==
    LET Match(i) == /\ swimmers[i].grade = grade_filter
                    /\ (gender_filter # "All" => swimmers[i].gender = gender_filter)
    IN SelectSeq([i \in 1..Len(swimmers) |-> i], Match)

\* the page is opened with its three selectboxes set; the grid shows the query
OpenBatch(grade_filter, stroke_filter, gender_filter) ==
    LET ids == BatchQuery(grade_filter, gender_filter)
    IN /\ page' = [name |-> "Enter Times", stroke |-> stroke_filter,
                   grid |-> [i \in 1..Len(ids) |->
                               [id |-> ids[i], time |-> None, dns |-> FALSE]],
                   status |-> IF ids = <<>> THEN "No swimmers found." ELSE "editing",
                   count |-> 0]
       /\ UNCHANGED <<swimmers, results, today>>

\* the operator types into a Time cell
EditTime(i, v) ==
    /\ page.name = "Enter Times"
    /\ i \in 1..Len(page.grid)
    /\ page' = [page EXCEPT !.grid[i].time = v, !.status = "editing", !.count = 0]
    /\ UNCHANGED <<swimmers, results, today>>

\* the operator ticks or unticks a DNS box
ToggleDNS(i) ==
    /\ page.name = "Enter Times"
    /\ i \in 1..Len(page.grid)
    /\ page' = [page EXCEPT !.grid[i].dns = ~page.grid[i].dns,
                            !.status = "editing", !.count = 0]
    /\ UNCHANGED <<swimmers, results, today>>

\* lines 132-136: the try block and its bare except
BatchTime(raw_time) ==
    LET f == IF raw_time.kind = "list"
             THEN (IF raw_time.items = <<>> THEN [ok |-> FALSE]
                   ELSE PyFloat(raw_time.items[1]))
             ELSE PyFloat(raw_time)
    IN IF f.ok THEN f.v ELSE 0

\* a variant of Accepted that lets a zero time through
AcceptedFromZero(time_val, dns) == time_val >= 0 /\ ~dns

\* line 138: the condition under which the row is added
Accepted(time_val, dns) == time_val > 0 /\ ~dns

\* the documents the loop adds for rows i.. of the grid, in row order
RECURSIVE SubmitLoop(_, _, _)
SubmitLoop(grid, stroke, i) ==
    IF i > Len(grid) THEN <<>>
    ELSE LET time_val == BatchTime(grid[i].time)
         IN (IF Accepted(time_val, grid[i].dns)
             THEN <<NewResult(grid[i].id, stroke, time_val)>>
             ELSE <<>>) \o SubmitLoop(grid, stroke, i + 1)

\* the Submit Results button
SubmitResults ==
    /\ page.name = "Enter Times"
    /\ page.grid # <<>>
    /\ LET added == SubmitLoop(page.grid, page.stroke, 1)
       IN /\ Len(results) + Len(added) <= MaxResults
          /\ results' = results \o added
          /\ page' = [page EXCEPT !.status = "saved", !.count = Len(added)]
    /\ UNCHANGED <<swimmers, today>>

(***************************************************************************)
(* Edit/Fix Results.                                                       *)
(***************************************************************************)
\* what the grid hands back in a Time (Sec) cell: a number >= 0 (min_value=0.0),
\* or None, a cell value on which float() raises
HistoryTimeEntries == {Num(0), Num(30250), None}

\* what the grid hands back in a Date Swum cell: a date, or None for a cell
\* the operator emptied (the column is not required)
HistoryDateEntries == {Calendar[2], None}

\* the selectbox entry of swimmer i: first name, surname and grade
Display(i) == <<swimmers[i].first_name, swimmers[i].surname, swimmers[i].grade>>

\* line 171: iloc[0] of the swimmers that show the selected entry
SelectedSwimmer(display) ==
    CHOOSE i \in 1..Len(swimmers) :
        /\ Display(i) = display
        /\ \A j \in 1..(i - 1) : Display(j) # display

\* lines 173-180: the doc ids of the swimmer's results, in stream order
HistoryQuery(swimmer_id) ==
    LET Match(k) == results[k].swimmer_id = swimmer_id
    IN SelectSeq([k \in 1..Len(results) |-> k], Match)

\* lines 182-190: the frame the editor starts from, date_swum made a date
HistoryFrame(ids) ==
    [r \in 1..Len(ids) |->
        [doc_id |-> ids[r],
         time_seconds |-> Num(results[ids[r]].time_seconds),
         date_swum |-> ToDate(results[ids[r]].date_swum).date,
         stroke |-> results[ids[r]].stroke]]

\* the page is opened and a swimmer is picked in the selectbox
OpenHistory(display) ==
    LET ids == HistoryQuery(SelectedSwimmer(display))
        parsed == \A r \in 1..Len(ids) : ToDate(results[ids[r]].date_swum).ok
    IN /\ page' = [name |-> "Edit/Fix Results",
                   swimmer_id |-> SelectedSwimmer(display),
                   grid |-> IF parsed THEN HistoryFrame(ids) ELSE <<>>,
                   status |-> IF ids = <<>> THEN "No results found for this swimmer."
                              ELSE IF parsed THEN "editing"
                              ELSE "error"]
       /\ UNCHANGED <<swimmers, results, today>>

Editing == page.name = "Edit/Fix Results" /\ page.status = "editing"

\* the operator changes a Time (Sec) cell
EditHistoryTime(r, v) ==
    /\ Editing
    /\ r \in 1..Len(page.grid)
    /\ page' = [page EXCEPT !.grid[r].time_seconds = v]
    /\ UNCHANGED <<swimmers, results, today>>

\* the operator changes a Date Swum cell
EditHistoryDate(r, d) ==
    /\ Editing
    /\ r \in 1..Len(page.grid)
    /\ page' = [page EXCEPT !.grid[r].date_swum = d]
    /\ UNCHANGED <<swimmers, results, today>>

\* the operator changes a Stroke cell
EditHistoryStroke(r, s) ==
    /\ Editing
    /\ r \in 1..Len(page.grid)
    /\ page' = [page EXCEPT !.grid[r].stroke = s]
    /\ UNCHANGED <<swimmers, results, today>>

\* the operator removes a row (num_rows="dynamic")
DeleteHistoryRow(r) ==
    /\ Editing
    /\ r \in 1..Len(page.grid)
    /\ page' = [page EXCEPT !.grid = SubSeq(page.grid, 1, r - 1)
                                      \o SubSeq(page.grid, r + 1, Len(page.grid))]
    /\ UNCHANGED <<swimmers, results, today>>

\* lines 214-218: doc_ref.update of the three fields
UpdateResult(doc, time_val, date_text, stroke) ==
    [doc EXCEPT !.time_seconds = time_val, !.date_swum = date_text, !.stroke = stroke]

\* lines 211-220: the loop from row r on; float() raising ends it where it stands
RECURSIVE SaveLoop(_, _, _)
SaveLoop(store, grid, r) ==
    IF r > Len(grid) THEN [store |-> store, raised |-> FALSE]
    ELSE LET f == PyFloat(grid[r].time_seconds)
         IN IF ~f.ok THEN [store |-> store, raised |-> TRUE]
            ELSE SaveLoop([store EXCEPT ![grid[r].doc_id] =
                              UpdateResult(@, f.v, PyStr(grid[r].date_swum), grid[r].stroke)],
                          grid, r + 1)

\* the Save Changes to History button
SaveHistory ==
    /\ Editing
    /\ LET done == SaveLoop(results, page.grid, 1)
       IN /\ results' = done.store
          /\ page' = [page EXCEPT !.status = IF done.raised THEN "error"
                                             ELSE "History updated successfully!"]
    /\ UNCHANGED <<swimmers, today>>

(***************************************************************************)
(* Rankings.                                                               *)
(***************************************************************************)
Genders == {"M", "F"}

\* the names and houses of the model in Python's str order
Words == <<"Adams", "Alice", "Ben", "Beth", "Botha", "Bromhead", "Cara", "Cele",
           "Christie", "Clark", "Dina", "Dube", "Faye", "Fry", "Gray", "Gus",
           "Melville">>

WordLess(a, b) ==
    (CHOOSE i \in 1..Len(Words) : Words[i] = a) < (CHOOSE i \in 1..Len(Words) : Words[i] = b)

\* Python's < on the group keys (first_name, surname, house)
KeyLess(a, b) ==
    \/ WordLess(a[1], b[1])
    \/ a[1] = b[1] /\ WordLess(a[2], b[2])
    \/ a[1] = b[1] /\ a[2] = b[2] /\ WordLess(a[3], b[3])

\* lines 294-302: the swimmers of the grade and gender, in stream order
RankSwimmers(r_grade, r_gender) ==
    LET Match(i) == swimmers[i].grade = r_grade /\ swimmers[i].gender = r_gender
    IN SelectSeq([i \in 1..Len(swimmers) |-> i], Match)

\* lines 305-312: the results of the stroke, in stream order
RankResults(r_stroke) ==
    LET Match(k) == results[k].stroke = r_stroke
    IN SelectSeq([k \in 1..Len(results) |-> k], Match)

MergedRow(i, k) ==
    [swimmer_id |-> i, first_name |-> swimmers[i].first_name,
     surname |-> swimmers[i].surname, house |-> swimmers[i].house,
     stroke |-> results[k].stroke,
     time_seconds |-> results[k].time_seconds, date_swum |-> results[k].date_swum]

\* line 315: pd.merge(df_swimmers, df_results, on="swimmer_id"), an inner join
RECURSIVE Merge(_, _)
Merge(ids, docs) ==
    IF ids = <<>> THEN <<>>
    ELSE LET Mine(k) == results[k].swimmer_id = Head(ids)
             mine == SelectSeq(docs, Mine)
         IN [j \in 1..Len(mine) |-> MergedRow(Head(ids), mine[j])] \o Merge(Tail(ids), docs)

GroupKey(row) == <<row.first_name, row.surname, row.house>>

\* line 319: the keys of groupby, which sorts them
RECURSIVE SortedKeys(_)
SortedKeys(S) ==
    IF S = {} THEN <<>>
    ELSE LET least == CHOOSE a \in S : \A b \in S \ {a} : KeyLess(a, b)
         IN <<least>> \o SortedKeys(S \ {least})

\* line 321: the rows of one group, in the order of the merged frame
Group(merged, key) ==
    LET Mine(row) == GroupKey(row) = key
    IN SelectSeq(merged, Mine)

\* sort_values(by='date_swum', ascending=False): every order the sort may give,
\* rows of equal date_swum in any order
RECURSIVE DateSorts(_, _)
DateSorts(group, P) ==
    IF P = {} THEN {<<>>}
    ELSE UNION {{<<group[p]>> \o rest : rest \in DateSorts(group, P \ {p})} :
                p \in {q \in P : \A o \in P : ~StrLess(group[q].date_swum, group[o].date_swum)}}

RECURSIVE SumTimes(_)
SumTimes(rows) == IF rows = <<>> THEN 0 ELSE Head(rows).time_seconds + SumTimes(Tail(rows))

MinTime(rows) ==
    CHOOSE t \in {rows[j].time_seconds : j \in 1..Len(rows)} :
        \A j \in 1..Len(rows) : t <= rows[j].time_seconds

\* round(total / count, 2) in hundredths, halves to the even neighbour
Round2(total, count) ==
    LET den == 10 * count
        q == total \div den
        r == total % den
    IN IF 2 * r < den THEN q
       ELSE IF 2 * r > den THEN q + 1
       ELSE IF q % 2 = 0 THEN q ELSE q + 1

Head_(rows, n) == SubSeq(rows, 1, IF n < Len(rows) THEN n ELSE Len(rows))

\* a variant of BestTime that reads the group's first row
BestTimeFirstRow(group) ==
    [time |-> Round2(group[1].time_seconds, 1), note |-> <<"Best of", Len(group)>>]

\* lines 325-327
BestTime(group) ==
    [time |-> Round2(MinTime(group), 1), note |-> <<"Best of", Len(group)>>]

\* lines 329-331, on the sorted group
LastSwim(sorted) ==
    [time |-> Round2(sorted[1].time_seconds, 1), note |-> <<"Date:", sorted[1].date_swum>>]

\* a variant of AverageOfLastN that divides by the slider's value
AverageOverN(sorted, n_val) ==
    LET top_n == Head_(sorted, n_val)
    IN [time |-> Round2(SumTimes(top_n), n_val), note |-> <<"Avg of", Len(top_n)>>]

\* lines 333-336, on the sorted group
AverageOfLastN(sorted, n_val) ==
    LET top_n == Head_(sorted, n_val)
    IN [time |-> Round2(SumTimes(top_n), Len(top_n)), note |-> <<"Avg of", Len(top_n)>>]

\* lines 322-336: what the loop body may compute for one group
Reduce(group, calc_method, n_val) ==
    IF calc_method = "Best Time" THEN {BestTime(group)}
    ELSE IF calc_method = "Last Swim"
    THEN {LastSwim(sorted) : sorted \in DateSorts(group, 1..Len(group))}
    ELSE {AverageOfLastN(sorted, n_val) : sorted \in DateSorts(group, 1..Len(group))}

\* lines 338-344
RankedRow(key, reduced) ==
    [first_name |-> key[1], surname |-> key[2], house |-> key[3],
     rank_time |-> reduced.time, note |-> reduced.note]

\* lines 318-344: every ranked_data the loop may build
RECURSIVE RankedData(_, _, _, _)
RankedData(merged, keys, calc_method, n_val) ==
    IF keys = <<>> THEN {<<>>}
    ELSE {<<RankedRow(Head(keys), red)>> \o rest :
            red \in Reduce(Group(merged, Head(keys)), calc_method, n_val),
            rest \in RankedData(merged, Tail(keys), calc_method, n_val)}

\* sort_values("Rank Time"): every order the sort may give (pandas' default
\* kind is quicksort, which is not stable), rows of equal Rank Time in any order
RECURSIVE RankSorts(_, _)
RankSorts(rows, P) ==
    IF P = {} THEN {<<>>}
    ELSE UNION {{<<rows[p]>> \o rest : rest \in RankSorts(rows, P \ {p})} :
                p \in {q \in P : \A o \in P : rows[q].rank_time <= rows[o].rank_time}}

\* reset_index(drop=True) and index += 1
Reindex(rows) ==
    [j \in 1..Len(rows) |->
        [index |-> j, first_name |-> rows[j].first_name, surname |-> rows[j].surname,
         house |-> rows[j].house, rank_time |-> rows[j].rank_time, note |-> rows[j].note]]

\* line 346: every df_rank the page may show
RankTables(merged, calc_method, n_val) ==
    LET keys == SortedKeys({GroupKey(merged[j]) : j \in 1..Len(merged)})
    IN UNION {{Reindex(t) : t \in RankSorts(rd, 1..Len(rd))} :
              rd \in RankedData(merged, keys, calc_method, n_val)}

\* a variant of Team that leaves out head(3)
TeamUncut(df_rank, h) ==
    LET InHouse(row) == row.house = h
    IN SelectSeq(df_rank, InHouse)

\* line 358: df_rank[df_rank['House'] == h].head(3)
Team(df_rank, h) ==
    LET InHouse(row) == row.house = h
    IN Head_(SelectSeq(df_rank, InHouse), TeamSize)

\* lines 353-362: one team per house, in the order of the houses
Teams(df_rank) == [c \in 1..Len(Houses) |-> Team(df_rank, Houses[c])]

RankPage(r_grade, r_stroke, r_gender, calc_method, n_val, status, df_rank) ==
    [name |-> "Rankings", grade |-> r_grade, stroke |-> r_stroke, gender |-> r_gender,
     method |-> calc_method, n |-> n_val, status |-> status,
     table |-> df_rank, teams |-> Teams(df_rank)]

\* the page is opened with its selectboxes, radio and slider set
ShowRankings(r_grade, r_stroke, r_gender, calc_method, n_val) ==
    LET ids == RankSwimmers(r_grade, r_gender)
        docs == RankResults(r_stroke)
        merged == Merge(ids, docs)
    IN /\ n_val = (IF calc_method = "Average of Last N" THEN n_val ELSE DefaultN)
       /\ IF ids = <<>>
          THEN page' = RankPage(r_grade, r_stroke, r_gender, calc_method, n_val,
                                "No swimmers found.", <<>>)
          ELSE IF docs = <<>>
          THEN page' = RankPage(r_grade, r_stroke, r_gender, calc_method, n_val,
                                "No results entered yet.", <<>>)
          ELSE IF merged = <<>>
          THEN page' = RankPage(r_grade, r_stroke, r_gender, calc_method, n_val,
                                "No results found.", <<>>)
          ELSE \E df_rank \in RankTables(merged, calc_method, n_val) :
                  page' = RankPage(r_grade, r_stroke, r_gender, calc_method, n_val,
                                   "ranked", df_rank)
       /\ UNCHANGED <<swimmers, results, today>>

(***************************************************************************)
(* The batch page alone, over a class of two.                              *)
(***************************************************************************)
InitBatch ==
    /\ swimmers = ClassRoster
    /\ results = <<>>
    /\ today = Calendar[1]
    /\ page = Home

NextBatch ==
    \/ \E g \in GradeChoices, s \in StrokeChoices, x \in GenderFilters : OpenBatch(g, s, x)
    \/ \E i \in 1..2, v \in TimeEntries : EditTime(i, v)
    \/ \E i \in 1..2 : ToggleDNS(i)
    \/ SubmitResults

SpecBatch == InitBatch /\ [][NextBatch]_vars

(***************************************************************************)
(* The program: every page, over a one-swimmer school.                     *)
(***************************************************************************)
Init ==
    /\ swimmers = SoloRoster
    /\ results = <<>>
    /\ today = Calendar[1]
    /\ page = Home

Displays == {Display(i) : i \in 1..Len(swimmers)}

Next ==
    \/ \E g \in GradeChoices, s \in StrokeChoices, x \in GenderFilters : OpenBatch(g, s, x)
    \/ \E i \in 1..2, v \in TimeEntries : EditTime(i, v)
    \/ \E i \in 1..2 : ToggleDNS(i)
    \/ SubmitResults
    \/ \E d \in Displays : OpenHistory(d)
    \/ \E r \in 1..MaxResults, v \in HistoryTimeEntries : EditHistoryTime(r, v)
    \/ \E r \in 1..MaxResults, d \in HistoryDateEntries : EditHistoryDate(r, d)
    \/ \E r \in 1..MaxResults, s \in StrokeChoices : EditHistoryStroke(r, s)
    \/ \E r \in 1..MaxResults : DeleteHistoryRow(r)
    \/ SaveHistory
    \/ \E g \in GradeChoices, s \in StrokeChoices, x \in Genders, m \in Methods, n \in MinN..MaxN :
          ShowRankings(g, s, x, m, n)

Spec == Init /\ [][Next]_vars

(***************************************************************************)
(* The Rankings page over a collection that earlier sessions filled: a     *)
(* class with five girls of one house (two of them of the same name), a    *)
(* girl of a second house and a boy of another grade, and at most MaxSeed  *)
(* of the documents below, in this order.                                  *)
(***************************************************************************)
RankRoster ==
    <<Swimmer("Alice", "Adams", "F", 4, "Bromhead"),
      Swimmer("Alice", "Adams", "F", 4, "Bromhead"),
      Swimmer("Beth", "Botha", "F", 4, "Bromhead"),
      Swimmer("Cara", "Cele", "F", 4, "Bromhead"),
      Swimmer("Dina", "Dube", "F", 4, "Bromhead"),
      Swimmer("Faye", "Fry", "F", 4, "Christie"),
      Swimmer("Gus", "Gray", "M", 5, "Clark")>>

\* a document as Submit Results wrote it on day, or as Save Changes left it
Doc(id, stroke, time_val, date_text) ==
    [swimmer_id |-> id, stroke |-> stroke, time_seconds |-> time_val,
     date_swum |-> date_text, season |-> 2024,
     source |-> "Trials", logged_by |-> "Staff Member"]

SeedPool ==
    <<Doc(1, "Freestyle", 30250, Strftime(Calendar[1])),
      Doc(1, "Freestyle", 29995, Strftime(Calendar[2])),
      Doc(1, "Freestyle", 31500, Strftime(Calendar[2])),
      Doc(1, "Freestyle", 0, Strftime(Calendar[1])),
      Doc(1, "Freestyle", 30255, PyStr(None)),
      Doc(1, "Butterfly", 29995, Strftime(Calendar[1])),
      Doc(2, "Freestyle", 29995, Strftime(Calendar[2])),
      Doc(3, "Freestyle", 30250, Strftime(Calendar[1])),
      Doc(4, "Freestyle", 30245, Strftime(Calendar[1])),
      Doc(5, "Freestyle", 31500, Strftime(Calendar[1])),
      Doc(6, "Freestyle", 30250, Strftime(Calendar[1])),
      Doc(7, "Freestyle", 29995, Strftime(Calendar[1]))>>

\* the documents of SeedPool at the places P, in the pool's order
RECURSIVE Pick(_, _)
Pick(P, from) ==
    IF from > Len(SeedPool) THEN <<>>
    ELSE (IF from \in P THEN <<SeedPool[from]>> ELSE <<>>) \o Pick(P, from + 1)

InitRank ==
    /\ swimmers = RankRoster
    /\ \E P \in SUBSET (1..Len(SeedPool)) :
          /\ Cardinality(P) <= MaxSeed
          /\ results = Pick(P, 1)
    /\ today = Calendar[2]
    /\ page = Home

NextRank ==
    \E g \in GradeChoices, s \in StrokeChoices, x \in Genders, m \in Methods, n \in MinN..MaxN :
        ShowRankings(g, s, x, m, n)

SpecRank == InitRank /\ [][NextRank]_vars

(***************************************************************************)
(* Gala Reports.  The report has two parts over one merged frame: the      *)
(* house team lists (part A), which print for each house and event the     *)
(* house's rows sorted by time and cut to three, and the event heat sheets *)
(* (part B), which put the same cut of every house together and sort it.   *)
(***************************************************************************)
FinalistsPerHouse == 3

GalaHouses == <<"Bromhead", "Christie", "Clark", "Melville">>

GalaGrades == <<4, 5, 6, 7>>

GalaStrokes == <<"Freestyle", "Breaststroke", "Backstroke", "Butterfly">>

GalaGenders == <<"F", "M">>

NumEvents == Len(GalaGrades) * Len(GalaStrokes) * Len(GalaGenders)

\* lines 423-425: the e-th event of the loops over grade, stroke and gender
Event(e) ==
    [grade |-> GalaGrades[((e - 1) \div (Len(GalaStrokes) * Len(GalaGenders))) + 1],
     stroke |-> GalaStrokes[(((e - 1) \div Len(GalaGenders)) % Len(GalaStrokes)) + 1],
     gender |-> GalaGenders[((e - 1) % Len(GalaGenders)) + 1]]

\* a row of df_full: the swimmer's columns beside the result's
FullRow(i, k) ==
    [swimmer_id |-> i, first_name |-> swimmers[i].first_name,
     surname |-> swimmers[i].surname, gender |-> swimmers[i].gender,
     grade |-> swimmers[i].grade, house |-> swimmers[i].house,
     id |-> k, stroke |-> results[k].stroke,
     time_seconds |-> results[k].time_seconds, date_swum |-> results[k].date_swum]

\* lines 374-379: every swimmer joined with every result of that swimmer
RECURSIVE FullMerge(_)
FullMerge(i) ==
    IF i > Len(swimmers) THEN <<>>
    ELSE LET Mine(k) == results[k].swimmer_id = i
             mine == SelectSeq([k \in 1..Len(results) |-> k], Mine)
         IN [j \in 1..Len(mine) |-> FullRow(i, mine[j])] \o FullMerge(i + 1)

\* lines 429-433
RaceData(df_full, ev) ==
    LET InEvent(row) == /\ row.grade = ev.grade
                        /\ row.gender = ev.gender
                        /\ row.stroke = ev.stroke
    IN SelectSeq(df_full, InEvent)

\* sort_values("time_seconds"): every order the sort may give, rows of equal
\* time in any order
RECURSIVE TimeSorts(_, _)
TimeSorts(rows, P) ==
    IF P = {} THEN {<<>>}
    ELSE UNION {{<<rows[p]>> \o rest : rest \in TimeSorts(rows, P \ {p})} :
                p \in {q \in P : \A o \in P : rows[q].time_seconds <= rows[o].time_seconds}}

\* line 438: what h_data may be for one house
HouseTops(race_data, house) ==
    LET InHouse(row) == row.house = house
        mine == SelectSeq(race_data, InHouse)
    IN {Head_(sorted, FinalistsPerHouse) : sorted \in TimeSorts(mine, 1..Len(mine))}

\* lines 436-439: what the list finalists may be, one h_data per house
Finalists(race_data) ==
    {<<a, b, c, d>> : a \in HouseTops(race_data, GalaHouses[1]),
                      b \in HouseTops(race_data, GalaHouses[2]),
                      c \in HouseTops(race_data, GalaHouses[3]),
                      d \in HouseTops(race_data, GalaHouses[4])}

\* lines 436-458: what the section of one event may be; part A prints
\* finalists[c] under house c (lines 394-414)
HeatSections(race_data, ev) ==
    UNION {{[grade |-> ev.grade, stroke |-> ev.stroke, gender |-> ev.gender,
             finalists |-> f, heat |-> heat_df] :
               heat_df \in TimeSorts(f[1] \o f[2] \o f[3] \o f[4],
                                     1..Len(f[1] \o f[2] \o f[3] \o f[4]))} :
           f \in Finalists(race_data)}

\* lines 423-458: the sections of the events from the e-th on, events without
\* rows left out
RECURSIVE Sections(_, _)
Sections(df_full, e) ==
    IF e > NumEvents THEN {<<>>}
    ELSE LET race_data == RaceData(df_full, Event(e))
         IN IF race_data = <<>> THEN Sections(df_full, e + 1)
            ELSE {<<sec>> \o rest : sec \in HeatSections(race_data, Event(e)),
                                    rest \in Sections(df_full, e + 1)}

\* the Generate PDF button
GenerateReport ==
    /\ IF swimmers # <<>> /\ results # <<>>
       THEN \E report \in Sections(FullMerge(1), 1) :
               page' = [name |-> "Gala Reports", status |-> "generated", report |-> report]
       ELSE page' = [name |-> "Gala Reports", status |-> "Not enough data.", report |-> <<>>]
    /\ UNCHANGED <<swimmers, results, today>>

NextGala == GenerateReport

SpecGala == InitRank /\ [][NextGala]_vars

(***************************************************************************)
(* Properties of the results collection.                                   *)
(***************************************************************************)
DocsOf(swimmer_id) == {k \in 1..Len(results) : results[k].swimmer_id = swimmer_id}

\* text of the exact form YYYY-MM-DD
IsIsoText(s) ==
    /\ Len(s) = 10
    /\ \A i \in {1, 2, 3, 4, 6, 7, 9, 10} : IsDigit(s[i])
    /\ s[5] = "-" /\ s[8] = "-"

Saved == page.name = "Edit/Fix Results" /\ page.status = "History updated successfully!"

SaveRaised ==
    /\ page.name = "Edit/Fix Results" /\ page.status = "error" /\ page.grid # <<>>

\* C1: no stored Result has a time_seconds that is zero or negative, whatever
\* batch submissions and history saves came before.
C1_StoredTimesPositive ==
    \A k \in 1..Len(results) : results[k].time_seconds > 0

\* C2: a step of Submit Results appends, in row order, one Result for exactly
\* the rows whose coerced time (the first element of a list, 0 for whatever
\* float() rejects) is above 0 and whose DNS box is unticked, leaves the older
\* Results alone, and reports the number appended.
C2_BatchPersistsExactlyValidRows ==
    [][SubmitResults =>
        LET grid == page.grid
            Unwrapped(i) == IF grid[i].time.kind = "list"
                            THEN (IF grid[i].time.items = <<>> THEN None
                                  ELSE grid[i].time.items[1])
                            ELSE grid[i].time
            Coerced(i) == IF PyFloat(Unwrapped(i)).ok THEN PyFloat(Unwrapped(i)).v ELSE 0
            keep == {i \in 1..Len(grid) : Coerced(i) > 0 /\ grid[i].dns = FALSE}
            added == SubSeq(results', Len(results) + 1, Len(results'))
        IN /\ Len(results') >= Len(results)
           /\ SubSeq(results', 1, Len(results)) = results
           /\ Len(added) = Cardinality(keep)
           /\ \A i \in 1..Len(grid) :
                 (i \in keep) <=>
                     \E j \in 1..Len(added) :
                        /\ added[j].swimmer_id = grid[i].id
                        /\ added[j].time_seconds = Coerced(i)
                        /\ added[j].stroke = page.stroke
           /\ \A j, l \in 1..Len(added) :
                 j < l => \E i, m \in keep : /\ i < m
                                             /\ added[j].swimmer_id = grid[i].id
                                             /\ added[l].swimmer_id = grid[m].id
           /\ page'.status = "saved"
           /\ page'.count = Len(added)]_vars

\* C2's case: a submission of two rows, one with a list-wrapped time that was
\* stored, one with a positive time and DNS ticked that was not.
C2_Witness ==
    /\ page.name = "Enter Times" /\ page.status = "saved" /\ page.count = 1
    /\ Len(page.grid) = 2
    /\ page.grid[1].time = List(<<Num(30250)>>) /\ ~page.grid[1].dns
    /\ page.grid[2].time = Num(29995) /\ page.grid[2].dns
    /\ Len(results) = 2
    /\ results[2].time_seconds = 30250 /\ results[2].swimmer_id = 1

\* C3: after a history save the swimmer's stored Results are exactly those
\* whose ids are rows of the edited grid (a removed row's Result is deleted).
C3_SaveDeletesRemovedRows ==
    Saved => DocsOf(page.swimmer_id) = {page.grid[r].doc_id : r \in 1..Len(page.grid)}

\* C4: after a history save, whether or not float() raised on some row, every
\* row of the grid whose time is numeric has been written to its Result.
C4_SaveWritesEveryNumericRow ==
    (Saved \/ SaveRaised) =>
        \A r \in 1..Len(page.grid) :
            PyFloat(page.grid[r].time_seconds).ok =>
                /\ results[page.grid[r].doc_id].time_seconds = PyFloat(page.grid[r].time_seconds).v
                /\ results[page.grid[r].doc_id].date_swum = PyStr(page.grid[r].date_swum)
                /\ results[page.grid[r].doc_id].stroke = page.grid[r].stroke

\* C5: after a history save every written date_swum has the exact form
\* YYYY-MM-DD, and every stored date_swum that loads is the text that saving
\* the loaded date writes back.
C5_SavedDatesIsoAndLossless ==
    /\ Saved => \A r \in 1..Len(page.grid) : IsIsoText(results[page.grid[r].doc_id].date_swum)
    /\ \A k \in 1..Len(results) :
          ToDate(results[k].date_swum).ok =>
              PyStr(ToDate(results[k].date_swum).date) = results[k].date_swum

(***************************************************************************)
(* Properties of the Rankings page.  The page shows a table computed from  *)
(* the collections as they are: nothing writes while it is shown.          *)
(***************************************************************************)
Ranked == page.name = "Rankings" /\ page.status = "ranked"

\* the merged frame behind the page that is shown
PageMerged == Merge(RankSwimmers(page.grade, page.gender), RankResults(page.stroke))

PageKeys == {GroupKey(PageMerged[j]) : j \in 1..Len(PageMerged)}

RowKey(row) == <<row.first_name, row.surname, row.house>>

TableRows(key) == {j \in 1..Len(page.table) : RowKey(page.table[j]) = key}

Abs(x) == IF x < 0 THEN -x ELSE x

\* h hundredths is total/count thousandths rounded to 2 decimals
Rounds(h, total, count) == 2 * Abs(total - 10 * count * h) <= 10 * count

RECURSIVE SumAt(_, _)
SumAt(group, S) ==
    IF S = {} THEN 0
    ELSE LET p == CHOOSE q \in S : TRUE
         IN group[p].time_seconds + SumAt(group, S \ {p})

Least(a, b) == IF a < b THEN a ELSE b

\* the sets of k rows of the group that are its k most recent by date_swum
MostRecent(group, k) ==
    {S \in SUBSET (1..Len(group)) :
        /\ Cardinality(S) = k
        /\ \A p \in S, q \in (1..Len(group)) \ S :
              ~StrLess(group[p].date_swum, group[q].date_swum)}

\* C6: under Best Time every group has one row, whose rank time is the least
\* time_seconds of the group rounded to 2 decimals, and which is at most what
\* Last Swim and Average of Last N (n = 2..5) give for the same group.
C6_BestIsMinimumAndLeast ==
    (Ranked /\ page.method = "Best Time") =>
        \A key \in PageKeys :
            LET group == Group(PageMerged, key)
            IN /\ Cardinality(TableRows(key)) = 1
               /\ \A j \in TableRows(key) :
                     /\ \E a \in 1..Len(group) :
                           /\ \A b \in 1..Len(group) :
                                 group[a].time_seconds <= group[b].time_seconds
                           /\ Rounds(page.table[j].rank_time, group[a].time_seconds, 1)
                     /\ \A o \in Reduce(group, "Last Swim", DefaultN) :
                           page.table[j].rank_time <= o.time
                     /\ \A n \in MinN..MaxN :
                           \A o \in Reduce(group, "Average of Last N", n) :
                              page.table[j].rank_time <= o.time

\* C6's case: a Best Time row of a group of two or more results whose latest
\* swim and whose average are both slower than its best.
C6_Witness ==
    /\ Ranked /\ page.method = "Best Time"
    /\ \E j \in 1..Len(page.table) :
          LET group == Group(PageMerged, RowKey(page.table[j]))
          IN /\ Len(group) >= 2
             /\ \A o \in Reduce(group, "Last Swim", DefaultN) : page.table[j].rank_time < o.time
             /\ \A o \in Reduce(group, "Average of Last N", MinN) : page.table[j].rank_time < o.time

\* C7: under Average of Last N every group has one row; its rank time is the
\* mean, rounded to 2 decimals, of the time_seconds of min(n, size) results
\* that are the group's most recent by date_swum; its note states min(n, size);
\* and with n >= size it is the rounded mean of the whole group.
C7_AverageOfMostRecent ==
    (Ranked /\ page.method = "Average of Last N") =>
        \A key \in PageKeys :
            LET group == Group(PageMerged, key)
                used == Least(page.n, Len(group))
            IN /\ Cardinality(TableRows(key)) = 1
               /\ \A j \in TableRows(key) :
                     /\ page.table[j].note = <<"Avg of", used>>
                     /\ \E S \in MostRecent(group, used) :
                           Rounds(page.table[j].rank_time, SumAt(group, S), used)
                     /\ page.n >= Len(group) =>
                           Rounds(page.table[j].rank_time,
                                  SumAt(group, 1..Len(group)), Len(group))

\* C7's case: an average over 2 of a group of three results on different
\* dates, beside a group smaller than n.
C7_Witness ==
    /\ Ranked /\ page.method = "Average of Last N" /\ page.n = 2
    /\ \E j \in 1..Len(page.table) :
          LET group == Group(PageMerged, RowKey(page.table[j]))
          IN /\ Len(group) = 3
             /\ \E a, b \in 1..3 : StrLess(group[a].date_swum, group[b].date_swum)
             /\ page.table[j].note = <<"Avg of", 2>>
    /\ \E j \in 1..Len(page.table) :
          /\ Len(Group(PageMerged, RowKey(page.table[j]))) = 1
          /\ page.table[j].note = <<"Avg of", 1>>

\* C8: the table is in ascending order of rank time, its positions are 1..k
\* in that order, and rows of equal rank time stand in the order in which the
\* grouping produced them (the order of their keys).
C8_SortedRankedAndStable ==
    Ranked =>
        /\ \A j \in 1..Len(page.table) : page.table[j].index = j
        /\ \A i, j \in 1..Len(page.table) :
              i < j =>
                 /\ page.table[i].rank_time <= page.table[j].rank_time
                 /\ page.table[i].rank_time = page.table[j].rank_time =>
                       KeyLess(RowKey(page.table[i]), RowKey(page.table[j]))

\* the places of the table that hold a swimmer of house h
HousePlaces(h) == {j \in 1..Len(page.table) : page.table[j].house = h}

\* C9: each of the four teams is the first min(qualifiers, 3) rows of the
\* table that belong to the house, in the table's order; no team is longer
\* than 3 and a house without a ranked swimmer has the empty team.
C9_TeamsAreTopThreePerHouse ==
    page.name = "Rankings" =>
        /\ Len(page.teams) = 4
        /\ \A c \in 1..4 :
              LET P == HousePlaces(Houses[c])
                  team == page.teams[c]
              IN /\ Len(team) = Least(Cardinality(P), 3)
                 /\ \A i \in 1..Len(team) :
                       \E p \in P : /\ Cardinality({q \in P : q < p}) = i - 1
                                    /\ team[i] = page.table[p]

\* C9's case: a house with four ranked swimmers and a team of three, beside
\* houses with none.
C9_Witness ==
    /\ Ranked
    /\ Cardinality(HousePlaces("Bromhead")) = 4 /\ Len(page.teams[1]) = 3
    /\ page.teams[2] = <<>> /\ page.teams[4] = <<>>

\* C10: every row of the table is computed from results of the selected
\* stroke that belong to one swimmer, who is of the selected grade and gender.
C10_OneSwimmerPerRow ==
    Ranked =>
        \A j \in 1..Len(page.table) :
            LET group == Group(PageMerged, RowKey(page.table[j]))
            IN /\ group # <<>>
               /\ \A a \in 1..Len(group) :
                     /\ group[a].stroke = page.stroke
                     /\ swimmers[group[a].swimmer_id].grade = page.grade
                     /\ swimmers[group[a].swimmer_id].gender = page.gender
               /\ \A a, b \in 1..Len(group) : group[a].swimmer_id = group[b].swimmer_id

(***************************************************************************)
(* Properties of the event heat sheets.                                    *)
(***************************************************************************)
Generated == page.name = "Gala Reports" /\ page.status = "generated"

\* C11: in every event's heat sheet each house has at most 3 rows, no swimmer
\* has more than one row (so a swimmer with several results holds one of the
\* house's places), and the rows are in ascending order of time.
C11_HeatSheetOneRowPerSwimmer ==
    Generated =>
        \A e \in 1..Len(page.report) :
            LET heat == page.report[e].heat
            IN /\ \A c \in 1..Len(GalaHouses) :
                     Cardinality({j \in 1..Len(heat) : heat[j].house = GalaHouses[c]}) <= 3
               /\ \A a, b \in 1..Len(heat) :
                     a < b => /\ heat[a].swimmer_id # heat[b].swimmer_id
                              /\ heat[a].time_seconds <= heat[b].time_seconds

====
